---- MODULE Spec2Model ----
(***************************************************************************)
(* A model of the ASR service of fig_aichat_asr:                           *)
(*   app/main.py               the FastAPI endpoints /health, /transcribe  *)
(*   app/models/whisper_asr.py the WhisperASR wrapper                      *)
(*                                                                         *)
(* Both endpoints are "async def" handlers: they run on one event loop and *)
(* can only be interleaved at an await.  health_check has no await;        *)
(* transcribe_audio has exactly one, "await audio_file.read()", reached    *)
(* after open(temp_path, "wb") has created or truncated the scratch file.  *)
(* A transcribe call is therefore two atomic steps: TranscribeOpen (up to  *)
(* the await) and TranscribeResume (everything after it, including the     *)
(* synchronous model.transcribe call and the finally block).               *)
(*                                                                         *)
(* Numbers that are Python floats in the source are IEEE 754 binary64     *)
(* values here: every arithmetic operation is computed exactly and then    *)
(* rounded to 53 significant bits, ties to even.  Texts that the code      *)
(* inspects character by character (the reference text, the model's text)  *)
(* are sequences of Unicode code points; messages that are only built by   *)
(* concatenation are TLA+ strings.                                         *)
(***************************************************************************)
EXTENDS Integers, Sequences, FiniteSets, TLC

(***************************************************************************)
(* Bounds of the model.                                                    *)
(***************************************************************************)
\* transcribe calls that can be in flight (suspended at the await) at once
NumReq == 2
\* longest reference text, in characters
MaxTextLen == 2
\* longest upload, in bytes
MaxBytes == 1
\* longest list of segments the model returns
MaxSegs == 2
\* largest segment timestamp, in tenths of a second
MaxTime == 4

(***************************************************************************)
(* Python values.                                                          *)
(***************************************************************************)
\* None where an instance, a string, a dict is expected
NoModel == [id |-> 0]
NoText == <<-1>>
NoResult == [none |-> TRUE]

\* dict.get(key, default)
Get(d, key, default) == IF key \in DOMAIN d THEN d[key] ELSE default

\* the empty dict
EmptyDict == <<>>

(***************************************************************************)
(* Natural numbers of any size, for the 53-bit significands of floats: a   *)
(* little-endian sequence of limbs in 0..LimbBase-1 without a leading zero *)
(* limb; <<>> is 0.                                                        *)
(***************************************************************************)
LimbBits == 15
LimbBase == 32768

Abs(i) == IF i < 0 THEN -i ELSE i
Min(i, j) == IF i < j THEN i ELSE j
Max(i, j) == IF i < j THEN j ELSE i

RECURSIVE Pow2(_)
Pow2(k) == IF k = 0 THEN 1 ELSE 2 * Pow2(k - 1)

RECURSIVE BitLength(_)
BitLength(n) == IF n = 0 THEN 0 ELSE 1 + BitLength(n \div 2)

RECURSIVE TrailingZeros(_)
TrailingZeros(n) == IF n % 2 = 1 THEN 0 ELSE 1 + TrailingZeros(n \div 2)

RECURSIVE NTrim(_)
NTrim(a) ==
    IF a # <<>> /\ a[Len(a)] = 0 THEN NTrim(SubSeq(a, 1, Len(a) - 1)) ELSE a

RECURSIVE NFromInt(_)
NFromInt(n) ==
    IF n = 0 THEN <<>> ELSE <<n % LimbBase>> \o NFromInt(n \div LimbBase)

Limb(a, i) == IF i <= Len(a) THEN a[i] ELSE 0

RECURSIVE NAddFrom(_, _, _, _)
NAddFrom(a, b, i, carry) ==
    IF i > Len(a) /\ i > Len(b)
    THEN IF carry = 0 THEN <<>> ELSE <<carry>>
    ELSE LET t == Limb(a, i) + Limb(b, i) + carry
         IN  <<t % LimbBase>> \o NAddFrom(a, b, i + 1, t \div LimbBase)

NAdd(a, b) == NAddFrom(a, b, 1, 0)

\* a - b, for a >= b
RECURSIVE NSubFrom(_, _, _, _)
NSubFrom(a, b, i, borrow) ==
    IF i > Len(a) THEN <<>>
    ELSE LET t == Limb(a, i) - Limb(b, i) - borrow
         IN  <<IF t < 0 THEN t + LimbBase ELSE t>>
                 \o NSubFrom(a, b, i + 1, IF t < 0 THEN 1 ELSE 0)

NSub(a, b) == NTrim(NSubFrom(a, b, 1, 0))

RECURSIVE NCmpFrom(_, _, _)
NCmpFrom(a, b, i) ==
    IF i = 0 THEN 0
    ELSE IF a[i] < b[i] THEN -1
    ELSE IF a[i] > b[i] THEN 1
    ELSE NCmpFrom(a, b, i - 1)

\* -1, 0, 1 as a < b, a = b, a > b
NCmp(a, b) ==
    IF Len(a) < Len(b) THEN -1
    ELSE IF Len(a) > Len(b) THEN 1
    ELSE NCmpFrom(a, b, Len(a))

\* a * k, for k < LimbBase
RECURSIVE NMulSmallFrom(_, _, _, _)
NMulSmallFrom(a, k, i, carry) ==
    IF i > Len(a)
    THEN IF carry = 0 THEN <<>> ELSE <<carry>>
    ELSE LET t == a[i] * k + carry
         IN  <<t % LimbBase>> \o NMulSmallFrom(a, k, i + 1, t \div LimbBase)

NMulSmall(a, k) == IF k = 0 THEN <<>> ELSE NMulSmallFrom(a, k, 1, 0)

RECURSIVE NMul(_, _)
NMul(a, b) ==
    IF a = <<>> \/ b = <<>> THEN <<>>
    ELSE LET rest == NMul(a, Tail(b))
         IN  NAdd(NMulSmall(a, b[1]),
                  IF rest = <<>> THEN <<>> ELSE <<0>> \o rest)

NBitLength(a) ==
    IF a = <<>> THEN 0
    ELSE LimbBits * (Len(a) - 1) + BitLength(a[Len(a)])

\* the number of zero bits at the low end of a, for a # 0
RECURSIVE NTrailingZeros(_)
NTrailingZeros(a) ==
    IF a[1] = 0 THEN LimbBits + NTrailingZeros(Tail(a))
    ELSE TrailingZeros(a[1])

\* a * 2^k
NShl(a, k) ==
    IF a = <<>> THEN <<>>
    ELSE [i \in 1..(k \div LimbBits) |-> 0] \o NMulSmall(a, Pow2(k % LimbBits))

\* a \div 2^k
NShr(a, k) ==
    LET q == k \div LimbBits
        p == Pow2(k % LimbBits)
        d == IF q >= Len(a) THEN <<>> ELSE SubSeq(a, q + 1, Len(a))
    IN  NTrim([i \in 1..Len(d) |->
                 (d[i] \div p) + (Limb(d, i + 1) % p) * (LimbBase \div p)])

\* bit i of a, bit 0 being the lowest
NBit(a, i) == (Limb(a, (i \div LimbBits) + 1) \div Pow2(i % LimbBits)) % 2

\* the largest digit d in lo..hi with b * d <= r, where b * lo <= r
RECURSIVE QuotientDigit(_, _, _, _)
QuotientDigit(r, b, lo, hi) ==
    IF lo = hi THEN lo
    ELSE LET mid == (lo + hi + 1) \div 2
         IN  IF NCmp(NMulSmall(b, mid), r) <= 0
             THEN QuotientDigit(r, b, mid, hi)
             ELSE QuotientDigit(r, b, lo, mid - 1)

\* long division by limbs: the quotient and the remainder by b of the
\* number made of the limbs i, i + 1, ... of a
RECURSIVE NDivModFrom(_, _, _)
NDivModFrom(a, b, i) ==
    IF i > Len(a) THEN [q |-> <<>>, r |-> <<>>]
    ELSE LET above == NDivModFrom(a, b, i + 1)
             r2 == NTrim(<<a[i]>> \o above.r)
             d == QuotientDigit(r2, b, 0, LimbBase - 1)
         IN  [q |-> NTrim(<<d>> \o above.q),
              r |-> NSub(r2, NMulSmall(b, d))]

\* a \div b and a % b, for b # 0
NDivMod(a, b) == NDivModFrom(a, b, 1)

(***************************************************************************)
(* Python floats.  A float is an IEEE 754 binary64 number: the record      *)
(* [s, m, e] stands for (-1)^s * m * 2^e, with m odd (or 0, and then s and *)
(* e are 0), so that every number has one record; it is a float when m has *)
(* at most Precision bits.  The sum, difference and product of two such    *)
(* numbers are computed exactly and then rounded to the nearest float,     *)
(* ties to even, as the hardware does.  Infinities, NaN, the sign of zero, *)
(* subnormal numbers and overflow are left out.                            *)
(***************************************************************************)
Precision == 53

\* the record of (-1)^s * m * 2^e for any m
Dyadic(s, m, e) ==
    IF m = <<>> THEN [s |-> 0, m |-> <<>>, e |-> 0]
    ELSE LET tz == NTrailingZeros(m)
         IN  [s |-> s, m |-> NShr(m, tz), e |-> e + tz]

DNeg(a) == IF a.m = <<>> THEN a ELSE [a EXCEPT !.s = 1 - a.s]

\* a + b, exactly
DAdd(a, b) ==
    IF a.m = <<>> THEN b
    ELSE IF b.m = <<>> THEN a
    ELSE LET e == Min(a.e, b.e)
             ma == NShl(a.m, a.e - e)
             mb == NShl(b.m, b.e - e)
             c == NCmp(ma, mb)
         IN  IF a.s = b.s THEN Dyadic(a.s, NAdd(ma, mb), e)
             ELSE IF c = 0 THEN Dyadic(0, <<>>, 0)
             ELSE IF c > 0 THEN Dyadic(a.s, NSub(ma, mb), e)
             ELSE Dyadic(b.s, NSub(mb, ma), e)

DSub(a, b) == DAdd(a, DNeg(b))

\* a * b, exactly
DMul(a, b) == Dyadic((a.s + b.s) % 2, NMul(a.m, b.m), a.e + b.e)

\* -1, 0, 1 as a is negative, zero, positive
DSign(a) == IF a.m = <<>> THEN 0 ELSE IF a.s = 1 THEN -1 ELSE 1

\* a < b
DLt(a, b) == DSign(DSub(a, b)) < 0

\* the float nearest to a, ties to the even significand
Round(a) ==
    LET k == NBitLength(a.m) - Precision
    IN  IF k <= 0 THEN a
        ELSE LET q == NShr(a.m, k)
                 up == NBit(a.m, k - 1) = 1
                          /\ (NShl(NShr(a.m, k - 1), k - 1) # a.m \/ NBit(q, 0) = 1)
             IN  Dyadic(a.s, IF up THEN NAdd(q, <<1>>) ELSE q, a.e + k)

\* the float operators +, -, *, / of Python
FAdd(a, b) == Round(DAdd(a, b))
FSub(a, b) == Round(DSub(a, b))
FMul(a, b) == Round(DMul(a, b))

\* a / b for b # 0: the quotient to Precision + 2 bits or more, with one
\* more bit that says whether a remainder is left, rounded
FDiv(a, b) ==
    IF a.m = <<>> THEN a
    ELSE IF b.m = <<1>> THEN Round(Dyadic((a.s + b.s) % 2, a.m, a.e - b.e))
    ELSE LET k == Max(0, Precision + 2 + NBitLength(b.m) - NBitLength(a.m))
             d == NDivMod(NShl(a.m, k), b.m)
             m == NAdd(NMulSmall(d.q, 2), IF d.r = <<>> THEN <<>> ELSE <<1>>)
         IN  Round(Dyadic((a.s + b.s) % 2, m, a.e - b.e - k - 1))

\* max(a, b) and min(a, b) of Python: the first argument unless the second
\* is greater (less)
FMax(a, b) == IF DLt(a, b) THEN b ELSE a
FMin(a, b) == IF DLt(b, a) THEN b ELSE a

\* float(n) of an int n
Float(n) == Dyadic(IF n < 0 THEN 1 ELSE 0, NFromInt(Abs(n)), 0)

\* the float literal with the decimal value n/d, as 0.1 is Decimal(1, 10)
Decimal(n, d) == FDiv(Float(n), Float(d))

Zero == Float(0)
One == Float(1)
Half == Decimal(1, 2)
Two == Float(2)

(***************************************************************************)
(* str.strip() on a sequence of code points.                               *)
(***************************************************************************)
\* the code points c with chr(c).isspace(): \t \n \v \f \r, the separators
\* U+001C..U+001F, the space, U+0085, U+00A0, U+1680, U+2000..U+200A,
\* U+2028, U+2029, U+202F, U+205F, U+3000
Whitespace ==
    (9..13) \cup (28..32) \cup {133, 160, 5760} \cup (8192..8202)
        \cup {8232, 8233, 8239, 8287, 12288}

RECURSIVE LStrip(_)
LStrip(s) ==
    IF s # <<>> /\ Head(s) \in Whitespace THEN LStrip(Tail(s)) ELSE s

RECURSIVE RStrip(_)
RStrip(s) ==
    IF s # <<>> /\ s[Len(s)] \in Whitespace
    THEN RStrip(SubSeq(s, 1, Len(s) - 1))
    ELSE s

Strip(s) == RStrip(LStrip(s))

(***************************************************************************)
(* WhisperASR._calculate_confidence and WhisperASR._get_audio_duration.    *)
(***************************************************************************)
\* line 149: max(0.0, min(1.0, (confidence + 1.0) / 2.0))
SegmentScore(lp) == FMax(Zero, FMin(One, FDiv(FAdd(lp, One), Two)))

\* lines 145-152: the loop over the segments, from segment i on, with the
\* accumulators total_confidence (tc) and total_duration (td)
RECURSIVE ConfidenceLoop(_, _, _)
ConfidenceLoop(segments, i, acc) ==
    IF i > Len(segments) THEN acc
    ELSE LET segment == segments[i]
             duration == FSub(Get(segment, "end", Zero), Get(segment, "start", Zero))
             confidence == SegmentScore(Get(segment, "avg_logprob", Zero))
         IN  ConfidenceLoop(segments, i + 1,
                 [tc |-> FAdd(acc.tc, FMul(confidence, duration)),
                  td |-> FAdd(acc.td, duration)])

calculate_confidence(result) ==
    LET segments == Get(result, "segments", <<>>)
    IN  IF segments = <<>> THEN Zero
        ELSE LET acc == ConfidenceLoop(segments, 1, [tc |-> Zero, td |-> Zero])
             IN  IF DLt(Zero, acc.td) THEN FDiv(acc.tc, acc.td) ELSE Zero

get_audio_duration(result) ==
    LET segments == Get(result, "segments", <<>>)
    IN  IF segments # <<>>
        THEN Get(segments[Len(segments)], "end", Zero)
        ELSE Zero

(***************************************************************************)
(* Exceptions and responses.                                               *)
(***************************************************************************)
\* raise HTTPException(status_code=..., detail=...)
HTTPException(status_code, detail) ==
    [status_code |-> status_code, detail |-> detail]

\* str(e) of an HTTPException, as Starlette's HTTPException.__str__ gives it:
\* "<status_code>: <detail>"
HTTPExceptionStr(e) == ToString(e.status_code) \o ": " \o e.detail

\* a handler returning a dict: a 200 response with that body
Ok(body) == [status_code |-> 200, body |-> body]

(***************************************************************************)
(* The environment: what the calls into the operating system, the upload   *)
(* and the whisper library can do.                                         *)
(***************************************************************************)
Filenames == {"a.wav", "b.wav"}

\* line 69: temp_path = f"temp_{audio_file.filename}"
TempPath(filename) == "temp_" \o filename

Paths == {TempPath(f) : f \in Filenames}

Bytes == {1}
RECURSIVE SeqsUpTo(_, _)
SeqsUpTo(S, n) ==
    IF n = 0 THEN {<<>>}
    ELSE LET shorter == SeqsUpTo(S, n - 1)
         IN  shorter \cup {Append(s, x) : s \in {t \in shorter : Len(t) = n - 1}, x \in S}

\* the upload contents
Contents == SeqsUpTo(Bytes, MaxBytes)

\* the reference texts: no form field, or a string
\* "\f" (a form feed, which str.strip() removes) and "a"
Chars == {12, 97}
Texts == {NoText} \cup SeqsUpTo(Chars, MaxTextLen)

IoErrors == {"No space left on device"}
RemoveErrors == {"Permission denied"}
CtorErrors == {"", "Whisper package not found"}
DecodeErrors == {"", "Failed to load audio"}

\* the outcome of a call that either completes or raises Exception(msg)
Raises(msgs) == {[ok |-> FALSE, msg |-> m] : m \in msgs}
Completes == [ok |-> TRUE]

\* open(temp_path, "wb"), f.write(content)
IoOutcomes == {Completes} \cup Raises(IoErrors)

\* os.remove(temp_path)
RemoveOutcomes == {Completes} \cup Raises(RemoveErrors)

\* await audio_file.read()
ReadOutcomes == {[ok |-> TRUE, content |-> c] : c \in Contents} \cup Raises(IoErrors)

\* WhisperASR._get_device
get_device(cuda_is_available) == IF cuda_is_available THEN "cuda" ELSE "cpu"

\* WhisperASR(): the device chosen and the model loaded, or an exception
CtorOutcomes ==
    {[ok |-> TRUE, device |-> get_device(cuda)] : cuda \in BOOLEAN} \cup Raises(CtorErrors)

(***************************************************************************)
(* The results of whisper's model.transcribe, the black box.               *)
(***************************************************************************)
\* the timestamps 0.0, 0.1, 0.2, ... as floats
Times == {Decimal(t, 10) : t \in 0..MaxTime}
\* below the clamp, inside it, above it
LogProbs == {Float(-3), Float(0), Float(3)}

Segment(start, end, avg_logprob) ==
    [start |-> start, end |-> end, avg_logprob |-> avg_logprob]

Segments == {Segment(s, e, l) : s \in Times, e \in Times, l \in LogProbs}

\* the example of the documentation: two 2-second segments, -1.0 and 1.0
ExampleSegments ==
    << Segment(Float(0), Float(2), Float(-1)),
       Segment(Float(2), Float(4), Float(1)) >>

\* three segments whose durations 1.1 - 0.0, 0.1 - 1.1 and 0.0 - 0.1 add up
\* to zero
CancellingSegments ==
    << Segment(Float(0), Decimal(11, 10), Float(1)),
       Segment(Decimal(11, 10), Decimal(1, 10), Float(1)),
       Segment(Decimal(1, 10), Float(0), Float(-1)) >>

\* segments and results that lack keys, for the .get defaults
PartialSegments ==
    { [start |-> One, avg_logprob |-> One],
      [end |-> Two, avg_logprob |-> One],
      [start |-> Zero, end |-> Two],
      EmptyDict }

RawResult(text, language, segments) ==
    [text |-> text, language |-> language, segments |-> segments]

RawResults ==
    {RawResult(<<97>>, "en", segs) : segs \in SeqsUpTo(Segments, MaxSegs)}
    \cup {RawResult(<<97>>, "en", ExampleSegments)}
    \cup {RawResult(<<97>>, "en", CancellingSegments)}
    \cup {RawResult(<<97>>, "en", <<p>>) : p \in PartialSegments}
    \cup {RawResult(<<97>>, "en", <<Segment(Zero, Two, One), p>>) : p \in PartialSegments}
    \cup {EmptyDict, [text |-> <<32, 97>>]}

\* the results the service model draws from
ServiceResults ==
    { RawResult(<<160, 97, 32>>, "en",
                <<Segment(Zero, One, Zero), Segment(One, Two, One)>>),
      [text |-> <<97>>, segments |-> <<>>],
      EmptyDict }

\* self.model.transcribe(audio_path, **options)
WhisperOutcomes ==
    {[ok |-> TRUE, result |-> r] : r \in ServiceResults} \cup Raises(DecodeErrors)

(***************************************************************************)
(* WhisperASR.                                                             *)
(***************************************************************************)
\* the except branch returns an empty result that has no "error" key
WhisperASR_transcribe_silent(self, audio_path, exists, whisper) ==
    LET failure(msg) ==
            [transcription |-> <<>>,
             language |-> "unknown",
             confidence |-> Zero,
             processing_info |-> [device |-> self.device, error |-> msg]]
    IN  IF ~exists THEN failure("Audio file not found: " \o audio_path)
        ELSE IF ~whisper.ok THEN failure(whisper.msg)
        ELSE LET result == whisper.result
             IN  [transcription |-> Strip(Get(result, "text", <<>>)),
                  language |-> Get(result, "language", "unknown"),
                  confidence |-> calculate_confidence(result),
                  segments |-> Get(result, "segments", <<>>),
                  processing_info |->
                      [model |-> "whisper",
                       device |-> self.device,
                       audio_duration |-> get_audio_duration(result),
                       detected_language |-> Get(result, "language", "unknown")]]

\* WhisperASR.transcribe(audio_path): exists is os.path.exists(audio_path),
\* whisper the outcome of self.model.transcribe
WhisperASR_transcribe(self, audio_path, exists, whisper) ==
    LET failure(msg) ==
            [transcription |-> <<>>,
             error |-> msg,
             language |-> "unknown",
             confidence |-> Zero,
             processing_info |-> [device |-> self.device, error |-> msg]]
    IN  IF ~exists THEN failure("Audio file not found: " \o audio_path)
        ELSE IF ~whisper.ok THEN failure(whisper.msg)
        ELSE LET result == whisper.result
             IN  [transcription |-> Strip(Get(result, "text", <<>>)),
                  language |-> Get(result, "language", "unknown"),
                  confidence |-> calculate_confidence(result),
                  segments |-> Get(result, "segments", <<>>),
                  processing_info |->
                      [model |-> "whisper",
                       device |-> self.device,
                       audio_duration |-> get_audio_duration(result),
                       detected_language |-> Get(result, "language", "unknown")]]

(***************************************************************************)
(* The state.                                                              *)
(***************************************************************************)
VARIABLES
    asr_model,   \* main.py line 13: NoModel, or the WhisperASR instance
    instances,   \* how many WhisperASR instances have been constructed
    fs,          \* the scratch paths that exist
    calls,       \* each transcribe call suspended at "await audio_file.read()"
    last,        \* the call that completed in the last step, or NoCall
    raw,         \* the result handed to a function that is run on its own
    measured     \* what the function made of raw, or NotMeasured

vars == <<asr_model, instances, fs, calls, last, raw, measured>>

service_vars == <<asr_model, instances, fs, calls, last>>
heuristic_vars == <<raw, measured>>

Slots == 1..NumReq

\* The content of a scratch file is read by whisper alone, whose outcome is
\* drawn freely, so the state keeps which paths exist and not what they hold.
\* os.path.exists(path)
Exists(dir, path) == path \in dir

Idle == [pc |-> "idle"]
NoCall == [op |-> "none"]
NotMeasured == [done |-> FALSE]

(***************************************************************************)
(* main.py, get_asr_model (lines 15-29).                                   *)
(***************************************************************************)
\* get_asr_model raising a 500 instead of a 503
get_asr_model_500(model, count, ctor) ==
    IF model = NoModel
    THEN IF ctor.ok
         THEN LET new == [id |-> count + 1, device |-> ctor.device]
              IN  [raised |-> FALSE, value |-> new, asr_model |-> new,
                   instances |-> count + 1, constructions |-> 1]
         ELSE [raised |-> TRUE, value |-> NoModel,
               exc |-> HTTPException(500, "ASR service unavailable: " \o ctor.msg),
               asr_model |-> model, instances |-> count, constructions |-> 1]
    ELSE [raised |-> FALSE, value |-> model, asr_model |-> model,
          instances |-> count, constructions |-> 0]

\* get_asr_model without the assignment to the global: the instance it
\* constructs is returned and not kept
get_asr_model_uncached(model, count, ctor) ==
    IF model = NoModel
    THEN IF ctor.ok
         THEN LET new == [id |-> count + 1, device |-> ctor.device]
              IN  [raised |-> FALSE, value |-> new, asr_model |-> model,
                   instances |-> count + 1, constructions |-> 1]
         ELSE [raised |-> TRUE, value |-> NoModel,
               exc |-> HTTPException(503, "ASR service unavailable: " \o ctor.msg),
               asr_model |-> model, instances |-> count, constructions |-> 1]
    ELSE [raised |-> FALSE, value |-> model, asr_model |-> model,
          instances |-> count, constructions |-> 0]

\* the global is bound to a placeholder before WhisperASR() is called, and
\* the placeholder stays when the construction fails
get_asr_model_placeholder(model, count, ctor) ==
    IF model = NoModel
    THEN IF ctor.ok
         THEN LET new == [id |-> count + 1, device |-> ctor.device]
              IN  [raised |-> FALSE, value |-> new, asr_model |-> new,
                   instances |-> count + 1, constructions |-> 1]
         ELSE [raised |-> TRUE, value |-> NoModel,
               exc |-> HTTPException(503, "ASR service unavailable: " \o ctor.msg),
               asr_model |-> [id |-> count + 1, device |-> "unknown"],
               instances |-> count, constructions |-> 1]
    ELSE [raised |-> FALSE, value |-> model, asr_model |-> model,
          instances |-> count, constructions |-> 0]

\* the instance returned or the HTTPException raised, and the new value of
\* the global; ctor is the outcome WhisperASR() has if it is called
get_asr_model(model, count, ctor) ==
    IF model = NoModel
    THEN IF ctor.ok
         THEN LET new == [id |-> count + 1, device |-> ctor.device]
              IN  [raised |-> FALSE, value |-> new, asr_model |-> new,
                   instances |-> count + 1, constructions |-> 1]
         ELSE [raised |-> TRUE, value |-> NoModel,
               exc |-> HTTPException(503, "ASR service unavailable: " \o ctor.msg),
               asr_model |-> model, instances |-> count, constructions |-> 1]
    ELSE [raised |-> FALSE, value |-> model, asr_model |-> model,
          instances |-> count, constructions |-> 0]

(***************************************************************************)
(* main.py, health_check (lines 31-48).                                    *)
(***************************************************************************)
\* getattr with the name of an attribute the instance does not have
health_check_no_device(model, count, ctor) ==
    LET got == get_asr_model(model, count, ctor)
    IN  [asr_model |-> got.asr_model,
         instances |-> got.instances,
         constructions |-> got.constructions,
         ctor_raised |-> got.raised,
         obtained |-> got.value,
         body |->
            IF ~got.raised
            THEN [status |-> "healthy",
                  service |-> "asr-service",
                  model_loaded |-> got.value # NoModel,
                  device |-> Get(got.value, "device_name", "unknown")]
            ELSE [status |-> "unhealthy",
                  service |-> "asr-service",
                  error |-> HTTPExceptionStr(got.exc)]]

\* lines 34-48: the recognizer is obtained inside the try, and whatever
\* get_asr_model raises is answered with the unhealthy body
health_check(model, count, ctor) ==
    LET got == get_asr_model(model, count, ctor)
    IN  [asr_model |-> got.asr_model,
         instances |-> got.instances,
         constructions |-> got.constructions,
         ctor_raised |-> got.raised,
         obtained |-> got.value,
         body |->
            IF ~got.raised
            THEN [status |-> "healthy",
                  service |-> "asr-service",
                  model_loaded |-> got.value # NoModel,
                  device |-> Get(got.value, "device", "unknown")]
            ELSE [status |-> "unhealthy",
                  service |-> "asr-service",
                  error |-> HTTPExceptionStr(got.exc)]]

(***************************************************************************)
(* main.py, transcribe_audio (lines 50-133).                               *)
(***************************************************************************)
\* the upload is never taken to be empty
IsEmptyUpload_unchecked(content) == FALSE

\* line 75: len(content) == 0
IsEmptyUpload(content) == Len(content) = 0

\* the error key counts only when its message is not empty
HasError_truthy(result) == "error" \in DOMAIN result /\ result.error # ""

\* line 100: "error" in result
HasError(result) == "error" \in DOMAIN result

\* the text counts only when it has no whitespace around it
HasReferenceText_untrimmed(text) ==
    text # NoText /\ text # <<>> /\ Strip(text) = text

\* line 80: text and text.strip()
HasReferenceText(text) == text # NoText /\ text # <<>> /\ Strip(text) # <<>>

\* a result without a confidence counts as certain
NormalizeResult_confident(result) ==
    [transcription |-> Get(result, "transcription", <<>>),
     source |-> "asr_model",
     language |-> Get(result, "language", "unknown"),
     confidence |-> Get(result, "confidence", One),
     segments |-> Get(result, "segments", <<>>),
     processing_info |-> Get(result, "processing_info", EmptyDict)]

\* lines 105-112: the response built from the recognizer's result
NormalizeResult(result) ==
    [transcription |-> Get(result, "transcription", <<>>),
     source |-> "asr_model",
     language |-> Get(result, "language", "unknown"),
     confidence |-> Get(result, "confidence", Zero),
     segments |-> Get(result, "segments", <<>>),
     processing_info |-> Get(result, "processing_info", EmptyDict)]

\* the reference text returned as given, not trimmed
ReferenceResponse_untrimmed(text) ==
    [transcription |-> text,
     source |-> "reference_text",
     language |-> "unknown",
     confidence |-> One,
     message |-> "Using provided reference text"]

\* lines 82-88
ReferenceResponse(text) ==
    [transcription |-> Strip(text),
     source |-> "reference_text",
     language |-> "unknown",
     confidence |-> One,
     message |-> "Using provided reference text"]

\* lines 123-125
InternalError(msg) == HTTPException(500, "Internal server error: " \o msg)

\* raise Exception(msg), any exception that is no HTTPException
Exception(msg) == [msg |-> msg]

IsHTTPException(exc) == "status_code" \in DOMAIN exc

\* the except clauses in the other order: every exception is wrapped
Handle_wrap_all(exc) ==
    IF IsHTTPException(exc) THEN InternalError(HTTPExceptionStr(exc))
    ELSE InternalError(exc.msg)

\* lines 121-125: an HTTPException is raised again as it is, any other
\* exception becomes a 500
Handle(exc) == IF IsHTTPException(exc) THEN exc ELSE InternalError(exc.msg)

\* lines 97-112: what the endpoint makes of the recognizer's result.  None
\* has no .get, so line 97 raises AttributeError.
respond_to_result(result) ==
    IF result = NoResult
    THEN Handle(Exception("'NoneType' object has no attribute 'get'"))
    ELSE IF HasError(result)
    THEN Handle(HTTPException(500, "Transcription error: " \o result.error))
    ELSE Ok(NormalizeResult(result))

\* what a call leaves behind besides its response
Untouched(model, count) ==
    [asr_model |-> model, instances |-> count, read |-> FALSE, content |-> <<>>,
     wrote |-> FALSE, constructions |-> 0, ctor_raised |-> FALSE,
     obtained |-> NoModel, invocations |-> 0, found |-> FALSE,
     whisper_ok |-> FALSE, result |-> NoResult]

\* lines 74-125: the try block from the await on, with its except clauses.
\* rd, wr, ctor and whisper are the outcomes of audio_file.read(), f.write(),
\* WhisperASR() and self.model.transcribe() should the call reach them;
\* exists is os.path.exists(temp_path).
transcribe_try(temp_path, rd, wr, text, model, count, exists, ctor, whisper) ==
    LET idle == Untouched(model, count)
    IN  IF ~rd.ok THEN idle @@ [resp |-> Handle(Exception(rd.msg))]
        ELSE LET read == [idle EXCEPT !.read = TRUE, !.content = rd.content]
        IN  IF IsEmptyUpload(rd.content)
            THEN read @@ [resp |-> Handle(HTTPException(400, "Empty audio file"))]
            ELSE IF ~wr.ok THEN read @@ [resp |-> Handle(Exception(wr.msg))]
            ELSE LET saved == [read EXCEPT !.wrote = TRUE]
            IN  IF HasReferenceText(text)
                THEN saved @@ [resp |-> Ok(ReferenceResponse(text))]
                ELSE LET got == get_asr_model(model, count, ctor)
                         tried == [saved EXCEPT !.asr_model = got.asr_model,
                                                !.instances = got.instances,
                                                !.constructions = got.constructions,
                                                !.ctor_raised = got.raised,
                                                !.obtained = got.value]
                IN  IF got.raised THEN tried @@ [resp |-> Handle(got.exc)]
                    ELSE LET result == WhisperASR_transcribe(got.value, temp_path,
                                                             exists, whisper)
                             called == [tried EXCEPT !.invocations = 1,
                                                     !.found = exists,
                                                     !.whisper_ok = exists /\ whisper.ok,
                                                     !.result = result]
                    IN  called @@ [resp |-> respond_to_result(result)]

\* os.remove raising out of the finally block and replacing the outcome
Finally_escalates(resp, removed) ==
    IF removed.ok THEN resp ELSE InternalError(removed.msg)

\* lines 128-133: the outcome of the call once the finally block has run;
\* removed is what os.remove did, Completes if it was not called.  An
\* exception of os.remove is logged (line 133) and goes no further.
Finally(resp, removed) == resp

\* no finally block: the scratch file is left behind
Cleanup_never(dir, temp_path, rm) == dir

\* lines 126-133: the finally block; rm is the outcome of os.remove
Cleanup(dir, temp_path, rm) ==
    IF Exists(dir, temp_path) /\ rm.ok
    THEN dir \ {temp_path}
    ELSE dir

\* os.remove was called and raised (line 132)
RemoveRaised(dir, temp_path, rm) == Exists(dir, temp_path) /\ ~rm.ok

\* what os.remove did in the finally block
Removal(dir, temp_path, rm) ==
    IF RemoveRaised(dir, temp_path, rm) THEN rm ELSE Completes

\* line 73: open(temp_path, "wb") creates the file, or truncates it
Open(dir, temp_path) == dir \cup {temp_path}

(***************************************************************************)
(* The steps of the service.                                               *)
(***************************************************************************)
Init ==
    /\ asr_model = NoModel
    /\ instances = 0
    /\ fs = {}
    /\ calls = [r \in Slots |-> Idle]
    /\ last = NoCall
    /\ raw = EmptyDict
    /\ measured = NotMeasured

\* The outcome of a call into the environment is drawn when the handler makes
\* the call; a call it does not make has the outcome Completes.
Drawn(made, outcomes) == IF made THEN outcomes ELSE {Completes}

\* line 77 is reached
Saves(rd) == rd.ok /\ ~IsEmptyUpload(rd.content)

\* line 91 is reached
NeedsModel(rd, wr, text) == Saves(rd) /\ wr.ok /\ ~HasReferenceText(text)

\* line 93 of whisper_asr.py is reached
Transcribes(rd, wr, text, ctor, exists) ==
    NeedsModel(rd, wr, text) /\ (asr_model # NoModel \/ ctor.ok) /\ exists

\* a suspended call that opened temp_path.  Its flag clobbered says that
\* another call has truncated or removed the file it opened; until then the
\* file at temp_path is the file it opened.
Holds(c, temp_path) == c.pc = "reading" /\ c.temp_path = temp_path

\* open(temp_path, "ab"): the file another call holds keeps its length
OpenWB_append(c, temp_path) == c

\* line 73 seen from another call c: open(temp_path, "wb") truncates the
\* file at the path, which is the file c opened unless c has lost it before
OpenWB(c, temp_path) ==
    IF Holds(c, temp_path) THEN [c EXCEPT !.clobbered = TRUE] ELSE c

\* line 130 seen from another call c: os.remove(temp_path) unlinks the file
\* at the path, so that c's path names no file (or, later, another call's)
Remove(c, dir, temp_path, rm) ==
    IF Holds(c, temp_path) /\ Exists(dir, temp_path) /\ rm.ok
    THEN [c EXCEPT !.clobbered = TRUE] ELSE c

\* GET /health: no await, one step
Health ==
    /\ last = NoCall
    /\ \E ctor \in Drawn(asr_model = NoModel, CtorOutcomes) :
        LET h == health_check(asr_model, instances, ctor)
        IN  /\ asr_model' = h.asr_model
            /\ instances' = h.instances
            /\ last' = [op |-> "health",
                        before |-> asr_model,
                        constructions |-> h.constructions,
                        ctor_raised |-> h.ctor_raised,
                        obtained |-> h.obtained,
                        resp |-> Ok(h.body)]
            /\ UNCHANGED <<fs, calls, heuristic_vars>>

\* POST /transcribe up to the await: lines 69-74, open succeeded
TranscribeOpen(r) ==
    /\ last = NoCall
    /\ calls[r].pc = "idle"
    /\ \E filename \in Filenames :
        LET temp_path == TempPath(filename)
        IN  /\ fs' = Open(fs, temp_path)
            /\ calls' = [q \in Slots |->
                            IF q = r
                            THEN [pc |-> "reading", filename |-> filename,
                                  temp_path |-> temp_path,
                                  clobbered |-> FALSE]
                            ELSE OpenWB(calls[q], temp_path)]
    /\ UNCHANGED <<asr_model, instances, last, heuristic_vars>>

\* the record of a completed transcribe call
Completed(r, filename, text, opened, t, dir, rm) ==
    [op |-> "transcribe",
     filename |-> filename,
     temp_path |-> TempPath(filename),
     text |-> text,
     opened |-> opened,
     read |-> t.read,
     content |-> t.content,
     wrote |-> t.wrote,
     before |-> asr_model,
     constructions |-> t.constructions,
     ctor_raised |-> t.ctor_raised,
     obtained |-> t.obtained,
     invocations |-> t.invocations,
     found |-> t.found,
     whisper_ok |-> t.whisper_ok,
     result |-> t.result,
     clobbered |-> calls[r].pc = "reading" /\ calls[r].clobbered,
     remove_raised |-> RemoveRaised(dir, TempPath(filename), rm),
     resp |-> Finally(t.resp, Removal(dir, TempPath(filename), rm))]

\* POST /transcribe when open(temp_path, "wb") raises: lines 73, 123-133
TranscribeOpenFails(r) ==
    /\ last = NoCall
    /\ calls[r].pc = "idle"
    /\ \E filename \in Filenames, text \in Texts, opened \in Raises(IoErrors) :
       \E rm \in Drawn(Exists(fs, TempPath(filename)), RemoveOutcomes) :
        LET temp_path == TempPath(filename)
            t == Untouched(asr_model, instances)
                     @@ [resp |-> Handle(Exception(opened.msg))]
        IN  /\ fs' = Cleanup(fs, temp_path, rm)
            /\ calls' = [q \in Slots |-> Remove(calls[q], fs, temp_path, rm)]
            /\ last' = Completed(r, filename, text, FALSE, t, fs, rm)
    /\ UNCHANGED <<asr_model, instances, heuristic_vars>>

\* the state once call r has run from the await to its response with the
\* outcome t of the try block and the outcome rm of os.remove
Resumed(r, text, rm, t) ==
    /\ asr_model' = t.asr_model
    /\ instances' = t.instances
    /\ fs' = Cleanup(fs, calls[r].temp_path, rm)
    /\ calls' = [q \in Slots |->
                    IF q = r THEN Idle
                    ELSE Remove(calls[q], fs, calls[r].temp_path, rm)]
    /\ last' = Completed(r, calls[r].filename, text, TRUE, t, fs, rm)

\* POST /transcribe from the await to the response: lines 74-133
TranscribeResume(r) ==
    /\ last = NoCall
    /\ calls[r].pc = "reading"
    /\ \E rd \in ReadOutcomes, text \in Texts :
       \E wr \in Drawn(Saves(rd), IoOutcomes) :
       \E ctor \in Drawn(NeedsModel(rd, wr, text) /\ asr_model = NoModel, CtorOutcomes) :
       \E whisper \in Drawn(Transcribes(rd, wr, text, ctor, Exists(fs, calls[r].temp_path)),
                            WhisperOutcomes) :
       \E rm \in Drawn(Exists(fs, calls[r].temp_path), RemoveOutcomes) :
        Resumed(r, text, rm,
                transcribe_try(calls[r].temp_path, rd, wr, text, asr_model, instances,
                               Exists(fs, calls[r].temp_path), ctor, whisper))
    /\ UNCHANGED heuristic_vars

\* The response of the completed call has gone to the client.  last is the
\* observation of one completed call at a time: the service takes its next
\* step once the observation is cleared, which leaves its own state alone.
Respond ==
    /\ last # NoCall
    /\ last' = NoCall
    /\ UNCHANGED <<asr_model, instances, fs, calls, heuristic_vars>>

Next ==
    \/ Health
    \/ Respond
    \/ \E r \in Slots : TranscribeOpen(r)
    \/ \E r \in Slots : TranscribeOpenFails(r)
    \/ \E r \in Slots : TranscribeResume(r)

Spec == Init /\ [][Next]_vars

(***************************************************************************)
(* The confidence heuristic on its own: every whisper result of the        *)
(* bounds is handed to _calculate_confidence and _get_audio_duration.      *)
(***************************************************************************)
InitHeuristic ==
    /\ asr_model = NoModel
    /\ instances = 0
    /\ fs = {}
    /\ calls = [r \in Slots |-> Idle]
    /\ last = NoCall
    /\ raw \in RawResults
    /\ measured = NotMeasured

Measure ==
    /\ measured = NotMeasured
    /\ measured' = [confidence |-> calculate_confidence(raw),
                    audio_duration |-> get_audio_duration(raw)]
    /\ UNCHANGED <<raw, service_vars>>

NextHeuristic == Measure

SpecHeuristic == InitHeuristic /\ [][NextHeuristic]_vars

(***************************************************************************)
(* Lines 97-112 of the endpoint on their own: model.transcribe is a call   *)
(* on whatever object get_asr_model returned, so the endpoint is handed    *)
(* every result a recognizer can return: a dict with any subset of the     *)
(* five keys, with or without "error", or None.                            *)
(***************************************************************************)
ResultKeys == {"transcription", "language", "confidence", "segments",
               "processing_info"}

\* for every key its default of lines 105-112 and another value
FullResults ==
    [transcription : {<<>>, <<97>>},
     language : {"unknown", "en"},
     confidence : {Zero, Half},
     segments : {<<>>, ExampleSegments},
     processing_info : {EmptyDict, [model |-> "whisper", device |-> "cpu"]}]

Restrict(d, keys) == [k \in keys |-> d[k]]

ErrorFreeResults == {Restrict(d, keys) : d \in FullResults, keys \in SUBSET ResultKeys}

RecognizerResults ==
    ErrorFreeResults
        \cup {d @@ [error |-> e] : d \in ErrorFreeResults, e \in DecodeErrors}
        \cup {NoResult}

InitResult ==
    /\ asr_model = NoModel
    /\ instances = 0
    /\ fs = {}
    /\ calls = [r \in Slots |-> Idle]
    /\ last = NoCall
    /\ raw \in RecognizerResults
    /\ measured = NotMeasured

HandleResult ==
    /\ measured = NotMeasured
    /\ measured' = [resp |-> respond_to_result(raw)]
    /\ UNCHANGED <<raw, service_vars>>

NextResult == HandleResult

SpecResult == InitResult /\ [][NextResult]_vars

(***************************************************************************)
(* Properties of the service.                                              *)
(***************************************************************************)
Transcribed == last.op = "transcribe"

\* t is s without its leading and trailing whitespace
IsTrimOf(t, s) ==
    /\ t # <<>>
    /\ t[1] \notin Whitespace
    /\ t[Len(t)] \notin Whitespace
    /\ \E i \in 1..Len(s) :
        /\ SubSeq(s, i, i + Len(t) - 1) = t
        /\ \A k \in 1..Len(s) : (k < i \/ k >= i + Len(t)) => s[k] \in Whitespace

\* t is not blank once trimmed
NonBlank(s) == s # NoText /\ \E k \in 1..Len(s) : s[k] \notin Whitespace

\* C1: when a transcribe call has completed, on whatever exit path, and
\* os.remove did not raise, its scratch file temp_<filename> does not exist.
C1_ScratchFileRemoved ==
    (Transcribed /\ ~last.remove_raised) => ~Exists(fs, last.temp_path)

\* C1 witness: a call that wrote its scratch file and got a transcription from
\* the model has completed, and the file is gone.
C1_Witness ==
    /\ Transcribed /\ last.wrote /\ last.invocations = 1
    /\ last.resp.status_code = 200
    /\ ~Exists(fs, last.temp_path)

\* C2 as stated: whatever the upload, a request with a non-blank reference
\* text is answered 200 with the trimmed text, source "reference_text",
\* confidence 1.0 and language "unknown".
C2_ReferenceTextAlways ==
    (Transcribed /\ NonBlank(last.text)) =>
        /\ last.resp.status_code = 200
        /\ IsTrimOf(last.resp.body.transcription, last.text)
        /\ last.resp.body.source = "reference_text"
        /\ last.resp.body.confidence = One
        /\ last.resp.body.language = "unknown"

\* C2 amended: a request whose upload is not empty and was saved to the
\* scratch file without an I/O error, and whose reference text is non-blank,
\* is answered 200 with the trimmed text, source "reference_text", confidence
\* 1.0 and language "unknown".
C2_ReferenceTextWhenSaved ==
    (Transcribed /\ last.wrote /\ NonBlank(last.text)) =>
        /\ last.resp.status_code = 200
        /\ IsTrimOf(last.resp.body.transcription, last.text)
        /\ last.resp.body.source = "reference_text"
        /\ last.resp.body.confidence = One
        /\ last.resp.body.language = "unknown"

\* C2 witness: a saved upload with the reference text "\fa" (a form feed
\* and an "a") was answered "a".
C2_Witness ==
    /\ Transcribed /\ last.wrote /\ last.text = <<12, 97>>
    /\ last.resp.status_code = 200
    /\ last.resp.body.transcription = <<97>>
    /\ last.resp.body.source = "reference_text"

\* C3: a transcribe request whose upload read zero bytes is answered 400,
\* whatever its reference text and whatever the recognizer's state, and it
\* neither constructs nor invokes the recognizer.
C3_EmptyUploadRejected ==
    (Transcribed /\ last.read /\ last.content = <<>>) =>
        /\ last.resp.status_code = 400
        /\ last.constructions = 0
        /\ last.invocations = 0
        /\ asr_model = last.before

\* C3 witness: an empty upload with a non-blank reference text, made while
\* the recognizer was not initialized, was answered 400.
C3_Witness ==
    /\ Transcribed /\ last.read /\ last.content = <<>>
    /\ NonBlank(last.text)
    /\ last.before = NoModel
    /\ last.resp.status_code = 400

\* C4: when the construction of the recognizer raises, health() returns
\* status "unhealthy" with a non-empty error string, and the transcribe call
\* (non-empty upload, no or blank reference text) returns a 503, not a 500.
C4_ConstructionFailure ==
    /\ (last.op = "health" /\ last.ctor_raised) =>
            /\ last.resp.status_code = 200
            /\ last.resp.body.status = "unhealthy"
            /\ last.resp.body.error # ""
    /\ (Transcribed /\ last.ctor_raised) =>
            /\ last.content # <<>> /\ ~NonBlank(last.text)
            /\ last.resp.status_code = 503
    /\ (Transcribed /\ last.wrote /\ ~NonBlank(last.text) /\ last.before = NoModel
            /\ asr_model = NoModel) => last.resp.status_code = 503

\* C4 witness: a construction whose exception has an empty message made
\* health() answer "unhealthy".
C4_Witness ==
    /\ last.op = "health" /\ last.ctor_raised
    /\ last.resp.body.status = "unhealthy"
    /\ asr_model = NoModel

\* C5: at most one recognizer instance is ever constructed; once asr_model is
\* set no step changes it, and every call that obtains a recognizer obtains
\* the one asr_model holds.
C5_Singleton ==
    [][ /\ asr_model # NoModel => asr_model' = asr_model
        /\ instances' <= 1
        /\ (last'.op # "none" /\ last'.obtained # NoModel)
              => (last'.obtained = asr_model' /\ asr_model'.id = 1) ]_vars

\* C5 witness: a transcribe call made when the recognizer existed already has
\* invoked that instance.
C5_Witness ==
    /\ Transcribed /\ last.before # NoModel /\ last.invocations = 1
    /\ last.obtained = last.before
    /\ instances = 1

\* C6: when the recognizer's result carries an "error" key the response is a
\* 500 whose detail names the recognizer's error, and it has no body: none of
\* the result's fields is returned.
C6_RecognizerErrorIs500 ==
    (Transcribed /\ last.invocations = 1 /\ "error" \in DOMAIN last.result) =>
        /\ last.resp.status_code = 500
        /\ last.resp.detail = "Transcription error: " \o last.result.error
        /\ "body" \notin DOMAIN last.resp

\* C6 witness: whisper raised with an empty message and the call was
\* answered 500.
C6_Witness ==
    /\ Transcribed /\ last.invocations = 1
    /\ "error" \in DOMAIN last.result
    /\ last.result.error = ""
    /\ last.resp.status_code = 500

\* C7 as stated: no two transcribe calls in flight at the same time use the
\* same scratch path.
C7_UniqueScratchPath ==
    \A r1 \in Slots, r2 \in Slots :
        (r1 # r2 /\ calls[r1].pc = "reading" /\ calls[r2].pc = "reading")
            => calls[r1].temp_path # calls[r2].temp_path

(***************************************************************************)
(* Properties of the confidence heuristic.                                 *)
(***************************************************************************)
Measured == measured # NotMeasured

RawSegments == Get(raw, "segments", <<>>)

\* every segment has its three keys
Complete(segments) ==
    \A i \in 1..Len(segments) :
        {"start", "end", "avg_logprob"} \subseteq DOMAIN segments[i]

\* The claims speak of the real numbers that the floats stand for: the
\* weights, the scores and their sums below are computed without rounding.

\* a <= b, and |a|
DLe(a, b) == DSign(DSub(a, b)) <= 0
DAbs(a) == [a EXCEPT !.s = 0]

\* x clamped to [0, 1]
Clamp01(x) == IF DLt(x, Zero) THEN Zero ELSE IF DLt(One, x) THEN One ELSE x

\* the weight of a segment, and its score
Weight(segment) == DSub(segment.end, segment.start)
Score(segment) == Clamp01(DMul(DAdd(segment.avg_logprob, One), Half))

WeightedScore(segment) == DMul(Weight(segment), Score(segment))

\* the sums over the segments, from the last one back
RECURSIVE TotalWeight(_)
TotalWeight(segments) ==
    IF segments = <<>> THEN Zero
    ELSE DAdd(Weight(segments[Len(segments)]),
              TotalWeight(SubSeq(segments, 1, Len(segments) - 1)))

RECURSIVE TotalWeightedScore(_)
TotalWeightedScore(segments) ==
    IF segments = <<>> THEN Zero
    ELSE DAdd(WeightedScore(segments[Len(segments)]),
              TotalWeightedScore(SubSeq(segments, 1, Len(segments) - 1)))

\* the relative error allowed to a float that "equals" a real number: 2^-40,
\* eight thousand times the rounding error of one float operation
Tolerance == Dyadic(0, <<1>>, -40)

\* x is the quotient num / den (den # 0) up to the relative error Tolerance
EqualsQuotient(x, num, den) ==
    DLe(DAbs(DSub(DMul(x, den), num)), DMul(Tolerance, DAbs(num)))

\* C8 as stated: for a non-empty list of segments of positive total duration
\* the confidence equals the duration-weighted average of the clamped
\* scores, sum((end - start) * score) / sum(end - start); the segments
\* (0,2,-1.0), (2,4,1.0) give 0.5.
C8_WeightedAverage ==
    /\ (Measured /\ RawSegments # <<>> /\ Complete(RawSegments)
            /\ DLt(Zero, TotalWeight(RawSegments))) =>
        EqualsQuotient(measured.confidence,
                       TotalWeightedScore(RawSegments), TotalWeight(RawSegments))
    /\ (Measured /\ RawSegments = ExampleSegments) => measured.confidence = Half

\* C9 as stated: whatever segments the model returns, the confidence lies in
\* [0, 1].
C9_ConfidenceInUnitInterval ==
    Measured => (DLe(Zero, measured.confidence) /\ DLe(measured.confidence, One))

\* C10 as stated: with zero segments the confidence and the duration
\* estimate are 0.0; with segments whose total duration is zero the
\* confidence is 0.0.
C10_ZeroCases ==
    /\ (Measured /\ RawSegments = <<>>) =>
            (measured.confidence = Zero /\ measured.audio_duration = Zero)
    /\ (Measured /\ RawSegments # <<>> /\ Complete(RawSegments)
            /\ TotalWeight(RawSegments) = Zero) => measured.confidence = Zero

(***************************************************************************)
(* Properties of the service, checked under Spec                          *)
(***************************************************************************)
\* the call reached model.transcribe (line 95)
Invoked == Transcribed /\ last.invocations = 1

\* C12: WhisperASR.transcribe always returns a result to the endpoint.  When
\* the path names no file or whisper raised, the result has an "error" key,
\* confidence 0.0 and an empty transcription, and the endpoint's outcome is
\* not the generic 500 of an exception that escaped; a result without an
\* "error" key is returned only when the file existed and whisper completed.
C12_WrapperNeverRaises ==
    Invoked =>
        /\ last.result # NoResult
        /\ (~last.found \/ ~last.whisper_ok) =>
              /\ HasError(last.result)
              /\ last.result.confidence = Zero
              /\ last.result.transcription = <<>>
              /\ last.resp = HTTPException(500, "Transcription error: "
                                                  \o last.result.error)
        /\ ~HasError(last.result) => (last.found /\ last.whisper_ok)

\* the recognizer was handed a path that names no file
C12_Witness ==
    /\ Invoked
    /\ ~last.found
    /\ last.result.error = "Audio file not found: temp_a.wav"
    /\ last.result.confidence = Zero

\* a health call has completed
Checked == last.op = "health"

\* what str() gives for the HTTPException of a failed construction
ConstructionFailures ==
    {HTTPExceptionStr(HTTPException(503, "ASR service unavailable: " \o msg)) :
        msg \in CtorErrors}

\* C13: a health call always answers with a body, whether the recognizer
\* was there, was constructed by the call, or could not be constructed.
\* The body is status "healthy" with model_loaded true and the device of
\* the singleton exactly when the call obtained the singleton, and status
\* "unhealthy" with the reason of the failed construction otherwise.
C13_HealthNeverThrows ==
    Checked =>
        /\ last.resp.status_code = 200
        /\ last.resp.body.service = "asr-service"
        /\ last.resp.body.status \in {"healthy", "unhealthy"}
        /\ last.resp.body.status = "healthy" <=>
               (last.obtained # NoModel /\ last.obtained = asr_model)
        /\ last.resp.body.status = "healthy" =>
              /\ DOMAIN last.resp.body =
                     {"status", "service", "model_loaded", "device"}
              /\ last.resp.body.model_loaded = TRUE
              /\ last.resp.body.device = asr_model.device
        /\ last.resp.body.status = "unhealthy" =>
              /\ DOMAIN last.resp.body = {"status", "service", "error"}
              /\ last.ctor_raised
              /\ asr_model = NoModel
              /\ last.resp.body.error \in ConstructionFailures

\* the construction failed inside the health call, which still answers
C13_Witness ==
    /\ Checked
    /\ last.resp.status_code = 200
    /\ last.ctor_raised
    /\ last.resp.body.status = "unhealthy"
    /\ last.resp.body.error = "503: ASR service unavailable: Whisper package not found"

\* the completed call c got as far as get_asr_model: a health call, or a
\* transcribe call whose upload was saved and has no reference text
NeedsRecognizer(c) ==
    \/ c.op = "health"
    \/ c.op = "transcribe" /\ c.wrote /\ ~NonBlank(c.text)

\* C14: the holder asr_model is either None or a WhisperASR instance.  A
\* call constructs at most once, and it does so exactly when it needs the
\* recognizer and finds the holder None, which is also the case after an
\* earlier call's construction failed; a failed construction leaves the
\* holder None, a successful one binds it, and a bound holder keeps its
\* instance for ever.
C14_HolderLifecycle ==
    [][ /\ asr_model' = NoModel \/ "device" \in DOMAIN asr_model'
        /\ asr_model # NoModel => asr_model' = asr_model
        /\ last' # NoCall =>
              /\ last'.constructions =
                     IF asr_model = NoModel /\ NeedsRecognizer(last') THEN 1 ELSE 0
              /\ last'.ctor_raised =>
                     (last'.constructions = 1 /\ asr_model' = NoModel)
              /\ (last'.constructions = 1 /\ ~last'.ctor_raised) =>
                     (asr_model' # NoModel /\ asr_model' = last'.obtained)
      ]_vars

\* a construction has failed and the holder is still None
C14_Witness ==
    /\ last # NoCall
    /\ last.constructions = 1
    /\ last.ctor_raised
    /\ asr_model = NoModel
    /\ instances = 0

\* two calls are suspended at the await with the same scratch path
Overlap(r1, r2) ==
    /\ r1 # r2
    /\ calls[r1].pc = "reading"
    /\ calls[r2].pc = "reading"
    /\ calls[r1].temp_path = calls[r2].temp_path

\* C15: whenever two transcribe calls with the same filename overlap, one
\* of them has had the scratch file it opened truncated by the other's
\* open or removed by another call's cleanup before it wrote its upload;
\* and a call that saved its upload and then found no file at its path when
\* it handed the path to the recognizer is one whose file another call has
\* clobbered, and it answers 500.
C15_SharedScratchPathRace ==
    /\ \A r1, r2 \in Slots :
          Overlap(r1, r2) =>
              calls[r1].clobbered \/ calls[r2].clobbered
    /\ (Invoked /\ ~last.found) =>
          /\ last.wrote
          /\ last.clobbered
          /\ last.resp = HTTPException(500,
                  "Transcription error: Audio file not found: " \o last.temp_path)

\* the interleaving: a call whose scratch file another call has clobbered
\* writes its upload and hands the recognizer a path that names no file
C15_Witness ==
    /\ Invoked
    /\ last.wrote
    /\ last.clobbered
    /\ ~last.found
    /\ last.resp.status_code = 500

\* the generic 500 responses of an open, read or write that raised
GenericErrors ==
    {HTTPException(500, "Internal server error: " \o msg) : msg \in IoErrors}

\* the 503 responses of a construction that raised
Unavailable ==
    {HTTPException(503, "ASR service unavailable: " \o msg) : msg \in CtorErrors}

\* open, read or write raised
IoFailed ==
    ~last.opened \/ ~last.read \/ (last.content # <<>> /\ ~last.wrote)

\* C16: a completed transcribe call answers 200, 400, 500 or 503.  The 400
\* of an empty upload, the 503 of a failed construction and the 500 of a
\* recognizer error reach the caller with the detail they were raised
\* with; an open, read or write that raised is answered with the generic
\* 500 "Internal server error: <message>"; and the answer is 200 exactly
\* when none of these happened.
C16_StatusPropagation ==
    Transcribed =>
        /\ last.resp.status_code \in {200, 400, 500, 503}
        /\ IoFailed => last.resp \in GenericErrors
        /\ (last.read /\ last.content = <<>>) =>
               last.resp = HTTPException(400, "Empty audio file")
        /\ last.ctor_raised => last.resp \in Unavailable
        /\ (Invoked /\ HasError(last.result)) =>
               last.resp = HTTPException(500, "Transcription error: "
                                               \o last.result.error)
        /\ last.resp.status_code = 200 <=>
               /\ last.wrote
               /\ NonBlank(last.text) \/ (Invoked /\ ~HasError(last.result))

\* the write of a non-empty upload raised: generic 500
C16_Witness ==
    /\ Transcribed
    /\ last.read
    /\ last.content # <<>>
    /\ ~last.wrote
    /\ last.resp = HTTPException(500, "Internal server error: No space left on device")

\* the status the try block of a completed transcribe call ends with, from
\* what happened in it
PrimaryStatus ==
    CASE ~last.opened -> 500
      [] last.opened /\ ~last.read -> 500
      [] last.read /\ last.content = <<>> -> 400
      [] last.read /\ last.content # <<>> /\ ~last.wrote -> 500
      [] last.wrote /\ NonBlank(last.text) -> 200
      [] last.wrote /\ ~NonBlank(last.text) /\ last.ctor_raised -> 503
      [] Invoked /\ HasError(last.result) -> 500
      [] Invoked /\ ~HasError(last.result) -> 200

\* the responses that would report a failed os.remove
RemovalErrors ==
    {HTTPException(500, "Internal server error: " \o msg) : msg \in RemoveErrors}

\* C17: on every exit path of a transcribe call the finally block has run:
\* the scratch path is gone unless os.remove raised.  Whether os.remove
\* raised or not, the response is the one the try block ended with: its
\* status is the primary status and it never reports the failed removal.
C17_CleanupNeverMasks ==
    Transcribed =>
        /\ last.remove_raised \/ ~Exists(fs, last.temp_path)
        /\ last.resp.status_code = PrimaryStatus
        /\ last.resp \notin RemovalErrors

\* os.remove raised after a successful transcription, which stays a 200
C17_Witness ==
    /\ Invoked
    /\ last.remove_raised
    /\ Exists(fs, last.temp_path)
    /\ last.resp.status_code = 200
    /\ last.resp.body.source = "asr_model"

\* the call completing in this step saved its upload and was given a
\* reference text that is not blank
TakesReferencePath == last'.op = "transcribe" /\ last'.wrote /\ NonBlank(last'.text)

\* C18: a transcribe call that takes the reference-text path neither
\* constructs nor invokes the recognizer and leaves the holder and the
\* number of instances as they were, and it answers 200 from the reference
\* text, whether the holder is None or bound.
C18_ReferencePathSkipsRecognizer ==
    [][ TakesReferencePath =>
            /\ asr_model' = asr_model
            /\ instances' = instances
            /\ last'.before = asr_model
            /\ last'.constructions = 0
            /\ ~last'.ctor_raised
            /\ last'.invocations = 0
            /\ last'.result = NoResult
            /\ last'.resp.status_code = 200
            /\ last'.resp.body.source = "reference_text"
      ]_vars

\* a reference-text call answered 200 while the holder is None
C18_Witness ==
    /\ Transcribed
    /\ last.wrote
    /\ NonBlank(last.text)
    /\ last.text # Strip(last.text)
    /\ last.before = NoModel
    /\ asr_model = NoModel
    /\ last.constructions = 0
    /\ last.resp.status_code = 200

\* the call completing in this step was refused for want of a recognizer
Refused ==
    \/ last'.op = "transcribe" /\ last'.resp.status_code = 503
    \/ last'.op = "health" /\ last'.resp.body.status = "unhealthy"

\* C19: once a WhisperASR instance has been constructed, the holder is
\* bound and stays bound, no transcribe call completing afterwards answers
\* 503 and every health call completing afterwards answers "healthy"; a 503
\* or an "unhealthy" is answered only by a call that found the holder None
\* and left it None.
C19_ReadyForGood ==
    [][ /\ instances >= 1 =>
              /\ asr_model # NoModel
              /\ asr_model' # NoModel
              /\ ~Refused
              /\ last'.op = "health" => last'.resp.body.status = "healthy"
        /\ Refused =>
              /\ instances = 0
              /\ asr_model = NoModel
              /\ asr_model' = NoModel
      ]_vars

\* a health call after the recognizer was constructed by an earlier call
C19_Witness ==
    /\ Checked
    /\ instances = 1
    /\ last.before # NoModel
    /\ last.constructions = 0
    /\ last.resp.body.status = "healthy"

(***************************************************************************)
(* Properties of the result handling, checked under SpecResult            *)
(***************************************************************************)
\* the defaults the response documents for a missing key
DefaultOf(key) ==
    CASE key = "transcription" -> <<>>
      [] key = "language" -> "unknown"
      [] key = "confidence" -> Zero
      [] key = "segments" -> <<>>
      [] key = "processing_info" -> EmptyDict

\* C11: for every recognizer result dict without an "error" key, whatever
\* subset of transcription, language, confidence, segments, processing_info
\* it lacks, the endpoint answers 200 with a body that has exactly those
\* five keys and source = "asr_model"; a key the result has is passed on
\* unchanged and a key it lacks has its default "", "unknown", 0.0, [], {}.
C11_ResultNormalized ==
    (Measured /\ raw # NoResult /\ ~HasError(raw)) =>
        /\ measured.resp.status_code = 200
        /\ DOMAIN measured.resp.body = ResultKeys \cup {"source"}
        /\ measured.resp.body.source = "asr_model"
        /\ \A key \in ResultKeys :
              measured.resp.body[key] =
                  IF key \in DOMAIN raw THEN raw[key] ELSE DefaultOf(key)

\* a result with nothing but a transcription gets the four other defaults
C11_Witness ==
    /\ Measured
    /\ DOMAIN raw = {"transcription"}
    /\ raw.transcription = <<97>>
    /\ measured.resp.status_code = 200
    /\ measured.resp.body.transcription = <<97>>
    /\ measured.resp.body.confidence = Zero
    /\ measured.resp.body.segments = <<>>
    /\ measured.resp.body.processing_info = EmptyDict

====
